---- MODULE Spec2Model ----
(***************************************************************************)
(* A model of scripts/blastlca.py: the BlastHits accumulator, the Tree     *)
(* taxonomy index and the parse_blast_results ingestion/resolution pass.   *)
(*                                                                         *)
(* Conventions.                                                            *)
(*  - Python sequences (list, deque) are TLA+ sequences; Python index i is *)
(*    TLA+ index i+1.                                                      *)
(*  - A call is one atomic action.  The caller is at "idle" before a call  *)
(*    and at "returned" after it, with the arguments in hcall / tcall and  *)
(*    the outcome in hret / tret; Resume is the caller going on to its     *)
(*    next call.                                                           *)
(*  - The exc field of an outcome is "none" for a normal return, else the  *)
(*    name of the Python exception that left the call; "NoReturn" stands   *)
(*    for a loop that never ends.                                          *)
(*  - Bitscores are floats in the program; the model draws them from the   *)
(*    integers 0..MaxScore, on which float() is exact.  top_fraction is    *)
(*    given in percent (50 is 0.5); 0 stands for both None and 0.0, which  *)
(*    the test `if top_fraction` does not tell apart.                      *)
(***************************************************************************)
EXTENDS Integers, Sequences, FiniteSets, Bags, TLC

VARIABLES
    names,        \* BlastHits.names  (deque of taxonomy names)
    bitscores,    \* BlastHits.bitscores (deque of floats)
    hpc,          \* the BlastHits caller: "idle" | "returned"
    hcall,        \* the last BlastHits call: op and arguments
    hret,         \* its outcome
    before,       \* history: the accumulator as the last call found it
    aligned,      \* history: no call has reordered names against bitscores
    tree,         \* Tree.tree (defaultdict(dict)): key -> Node or {}
    tpc,          \* the Tree's life: "building" | "failed" | "idle" | "returned"
    nlines,       \* lines of the taxonomy file read so far
    tcall,        \* the last line read or the last Tree call
    tret,         \* its outcome
    tbefore,      \* history: the tree as the last line or call found it
    params,       \* parse_blast_results: its keyword arguments
    contigs,      \* contigs[contig_name][orf_idx]: a BlastHits
    nrecords,     \* lines of the BLAST table read so far
    ppc,          \* "ingest" | "aborted" | "resolve" | "failed" | "done"
    presolved,    \* the ORF the second loop handled last, and the outcome
    orf_assignments,
    spc,          \* the caller of nettleton_pvalue: "idle" | "returned"
    scall,        \* the last call of nettleton_pvalue: items and key
    sret          \* its outcome

hitsVars == <<names, bitscores, hpc, hcall, hret, before, aligned>>

treeVars == <<tree, tpc, nlines, tcall, tret, tbefore>>

parseVars == <<params, contigs, nrecords, ppc, presolved, orf_assignments>>

statsVars == <<spc, scall, sret>>

vars == <<names, bitscores, hpc, hcall, hret, before, aligned,
          tree, tpc, nlines, tcall, tret, tbefore,
          params, contigs, nrecords, ppc, presolved, orf_assignments,
          spc, scall, sret>>

(***************************************************************************)
(* Bounds of the model.                                                    *)
(***************************************************************************)
MaxScore == 3
MaxHits == 4

HitTaxa == {"A", "B"}
Scores == 0..MaxScore
MaxHitsChoices == 1..MaxHits
TopFractions == {0, 50, 100}

MaxLines == 3
MaxList == 2
MaxDepth == 2

Ids == {"1", "2", "3"}
NameOf == ("1" :> "root") @@ ("2" :> "a") @@ ("3" :> "b")
Unknown == "zzz"
QueryTaxa == Ids \cup {NameOf["2"], Unknown}
QueryLists == UNION {[1..n -> QueryTaxa] : n \in 0..MaxList}
Thresholds == {0, 500, 1000}
IdMaps == {<<>>, ("2" :> "A")}

MaxRecords == 3

(***************************************************************************)
(* Sequence helpers standing for the Python built-ins the code calls.      *)
(***************************************************************************)
Range(s) == {s[i] : i \in DOMAIN s}

\* list.reverse() / deque.reverse()
Reverse(s) == [i \in 1..Len(s) |-> s[Len(s) + 1 - i]]

\* deque.insert(idx, x), idx a Python index in 0..len
InsertAt(s, idx, x) == SubSeq(s, 1, idx) \o <<x>> \o SubSeq(s, idx + 1, Len(s))

\* deque.popleft(), as the remaining deque
PopRight(s) == SubSeq(s, 1, Len(s) - 1)
PopLeft(s) == Tail(s)

\* bisect.bisect_left(a, x): the binary search of the standard library
RECURSIVE bisect_loop(_, _, _, _)
bisect_loop(a, x, lo, hi) ==
    IF lo < hi
    THEN LET mid == (lo + hi) \div 2
         IN  IF a[mid + 1] < x
             THEN bisect_loop(a, x, mid + 1, hi)
             ELSE bisect_loop(a, x, lo, mid)
    ELSE lo

AppendPosition(a, x) == Len(a)
\* bisect.bisect_right(a, x) on a sorted a: past the entries equal to x
bisect_right(a, x) == Cardinality({i \in DOMAIN a : a[i] <= x})
bisect_left(a, x) == bisect_loop(a, x, 0, Len(a))

\* Counter(s)[x]
CountOf(s, x) == Cardinality({i \in DOMAIN s : s[i] = x})

\* s.index(x): the Python index of the leftmost match (x occurs in s)
IndexOf(s, x) == (CHOOSE i \in DOMAIN s : s[i] = x /\ \A j \in 1..(i - 1) : s[j] # x) - 1

\* Counter(s).most_common(1)[0][0] for non-empty s: max() over the counter's
\* items in insertion (first occurrence) order returns the first maximal one.
MostCommon1(s) ==
    LET best == CHOOSE i \in DOMAIN s :
                    /\ \A j \in 1..(i - 1) : s[j] # s[i]
                    /\ \A j \in DOMAIN s : CountOf(s, s[j]) <= CountOf(s, s[i])
                    /\ \A j \in 1..(i - 1) : CountOf(s, s[j]) < CountOf(s, s[i])
    IN  s[best]

(***************************************************************************)
(* class BlastHits                                                         *)
(***************************************************************************)
EmptyHits == [names |-> <<>>, bitscores |-> <<>>]

\* line 343 with the floor taken from the head of the deque instead
BelowHeadFraction(bs, bitscore, top_fraction) ==
    bitscore * 100 < bs[1] * 100 - bs[1] * top_fraction

\* line 343: bitscore < self.bitscores[-1] - (self.bitscores[-1] * top_fraction)
BelowTopFraction(bs, bitscore, top_fraction) ==
    bitscore * 100 < bs[Len(bs)] * 100 - bs[Len(bs)] * top_fraction

\* lines 342-346: whether the hit gets past `if bitscore:`.  The filter
\* sets bitscore to None; None and 0.0 are both false.
Kept(bs, bitscore, top_fraction) ==
    LET filtered == /\ top_fraction # 0
                    /\ bs # <<>>
                    /\ BelowTopFraction(bs, bitscore, top_fraction)
    IN  ~filtered /\ bitscore # 0

\* lines 351-354 with the eviction taken from the tail instead
BoundRight(h, max_hits) ==
    IF Len(h.names) > max_hits
    THEN [names |-> PopRight(h.names), bitscores |-> PopRight(h.bitscores)]
    ELSE h

\* lines 351-354
Bound(h, max_hits) ==
    IF Len(h.names) > max_hits
    THEN [names |-> PopLeft(h.names), bitscores |-> PopLeft(h.bitscores)]
    ELSE h

\* BlastHits.add as a function of the accumulator
BlastHitsAdd(h, taxonomy, bitscore, max_hits, top_fraction) ==
    IF Kept(h.bitscores, bitscore, top_fraction)
    THEN LET idx == bisect_left(h.bitscores, bitscore)
         IN  Bound([names |-> InsertAt(h.names, idx, taxonomy),
                    bitscores |-> InsertAt(h.bitscores, idx, bitscore)],
                   max_hits)
    ELSE h

\* BlastHits.best_hit as a function of names
BestHitOf(ns) ==
    IF ns = <<>>
    THEN [exc |-> "IndexError", val |-> ""]
    ELSE [exc |-> "none", val |-> ns[Len(ns)]]

NoRepeats(ns) == Len(ns) = Cardinality(Range(ns))

\* BlastHits.majority: the names it leaves behind ...
MajorityNames(ns) == IF NoRepeats(ns) THEN ns ELSE Reverse(ns)

\* ... and what it returns
MajorityOf(ns) ==
    IF NoRepeats(ns)
    THEN BestHitOf(ns)
    ELSE LET most_common == MostCommon1(ns)
             flipped == Reverse(ns)
             idx == IndexOf(flipped, most_common)
         IN  [exc |-> "none", val |-> flipped[idx + 1]]

(***************************************************************************)
(* class Tree                                                              *)
(*                                                                         *)
(* A line of the taxonomy file is a sequence of symbols: TAB, or a word (a *)
(* maximal run of characters that are neither tabs nor white space).  The  *)
(* lines drawn hold at most one word between two tabs, so a field is a     *)
(* word or the empty string.                                               *)
(***************************************************************************)
TAB == "\t"

\* str.strip(): leading and trailing white space (tabs here) removed
RECURSIVE LStrip(_)
LStrip(line) ==
    IF line # <<>> /\ Head(line) = TAB THEN LStrip(Tail(line)) ELSE line

Strip(line) == Reverse(LStrip(Reverse(LStrip(line))))

\* str.split("\t"): the fields between the tabs; "" splits into [""]
RECURSIVE SplitTabs(_, _)
SplitTabs(line, field) ==
    IF line = <<>> THEN <<field>>
    ELSE IF Head(line) = TAB THEN <<field>> \o SplitTabs(Tail(line), "")
    ELSE SplitTabs(Tail(line), Head(line))

\* line 56: toks = line.strip().split("\t")
Toks(line) == SplitTabs(Strip(line), "")

\* class Node, and the value defaultdict(dict) makes up for a missing key
Node(taxonomy, node_id, parent_id) ==
    [kind |-> "Node", taxonomy |-> taxonomy, node_id |-> node_id, parent_id |-> parent_id]
EmptyDict == [kind |-> "dict", taxonomy |-> "", node_id |-> "", parent_id |-> ""]

EmptyTree == <<>>

\* self.tree[key] on the defaultdict: the value read ...
Get(t, key) == IF key \in DOMAIN t THEN t[key] ELSE EmptyDict
\* ... and the dictionary afterwards: a missing key is inserted
Touch(t, key) == IF key \in DOMAIN t THEN t ELSE t @@ (key :> EmptyDict)

\* dict assignment self.tree[key] = value
Put(t, key, value) == [k \in DOMAIN t \cup {key} |-> IF k = key THEN value ELSE t[k]]

\* Tree.add_node
add_node(t, taxonomy, node_id, parent_id) ==
    Put(Put(t, taxonomy, Node(taxonomy, node_id, parent_id)),
        node_id, Node(taxonomy, node_id, parent_id))

\* lines 57-58: what the test of the ids raises, "none" if nothing
CheckIds(toks) ==
    IF Len(toks) < 2 THEN "IndexError"
    ELSE IF toks[2] = "1" THEN "none"
    ELSE IF Len(toks) < 3 THEN "IndexError"
    ELSE IF toks[3] = "1" THEN "none"
    ELSE IF toks[2] = toks[3] THEN "AssertionError"
    ELSE "none"

\* lines 59-62: a row that has not three fields is skipped
AddRow(t, toks) ==
    IF Len(toks) # 3 THEN t ELSE add_node(t, toks[1], toks[2], toks[3])

(***************************************************************************)
(* The queries.  Each is a function from the tree and the arguments to     *)
(* [tree |-> the dictionary afterwards, exc |-> ..., val |-> ...].         *)
(***************************************************************************)
Outcome(t, exc, val) == [tree |-> t, exc |-> exc, val |-> val]

Bump(counts, key) ==
    IF key \in DOMAIN counts
    THEN [counts EXCEPT ![key] = @ + 1]
    ELSE counts @@ (key :> 1)

\* lines 106-110: the threshold in thousandths, clamped
Clamp(threshold) ==
    IF threshold > 1000 THEN 1000
    ELSE IF threshold < 10 THEN 100
    ELSE threshold

\* lines 122-127: the walk up from current; found tells a return or a raise
\* from inside the loop, counts is the counter as the walk leaves it
RECURSIVE lca_walk(_, _, _, _)
lca_walk(t, counts, current, target) ==
    IF current = "1"
    THEN [found |-> FALSE, counts |-> counts, out |-> Outcome(t, "none", <<>>)]
    ELSE LET c == Bump(counts, current)
             node == Get(t, current)
             t2 == Touch(t, current)
         IN  IF c[current] * 1000 >= target
             THEN IF node.kind = "Node"
                  THEN [found |-> TRUE, counts |-> c,
                        out |-> Outcome(t2, "none", <<node.taxonomy>>)]
                  ELSE [found |-> TRUE, counts |-> c,
                        out |-> Outcome(t2, "AttributeError", <<>>)]
             ELSE IF node.kind = "Node"
                  THEN lca_walk(t2, c, node.parent_id, target)
                  ELSE [found |-> TRUE, counts |-> c,
                        out |-> Outcome(t2, "AttributeError", <<>>)]

\* lines 115-128: the loop over the taxonomies, from the i-th on
RECURSIVE lca_loop(_, _, _, _, _)
lca_loop(t, counts, taxonomies, i, target) ==
    IF i > Len(taxonomies)
    THEN Outcome(t, "none", <<"root">>)
    ELSE LET node == Get(t, taxonomies[i])
             t2 == Touch(t, taxonomies[i])
         IN  IF node.kind # "Node"
             THEN lca_loop(t2, counts, taxonomies, i + 1, target)
             ELSE LET w == lca_walk(t2, counts, node.node_id, target)
                  IN  IF w.found
                      THEN w.out
                      ELSE lca_loop(w.out.tree, w.counts, taxonomies, i + 1, target)

\* Tree.lca; count_target = len(taxonomies) * threshold, in thousandths
lca(t, taxonomies, threshold) ==
    lca_loop(t, <<>>, taxonomies, 1, Len(taxonomies) * Clamp(threshold))

\* lines 158-160 and 183-185: the walk up to "1" that collects the ids
\* passed, the start first.  A second visit of an id on an unchanged tree
\* is a loop that never ends.
RECURSIVE walk_up(_, _, _)
walk_up(t, current, passed) ==
    IF current = "1" THEN Outcome(t, "none", passed)
    ELSE IF \E i \in 1..(Len(passed) - 1) : passed[i] = current
         THEN Outcome(t, "NoReturn", passed)
    ELSE LET node == Get(t, current)
         IN  IF node.kind = "Node"
             THEN walk_up(t, node.parent_id, Append(passed, node.parent_id))
             ELSE Outcome(Touch(t, current), "AttributeError", passed)

\* lines 150-164: the loop over taxonomy_list, from the i-th on
RECURSIVE filter_loop(_, _, _, _, _)
filter_loop(t, taxonomy_list, i, min_tree_depth, filtered_list) ==
    IF i > Len(taxonomy_list)
    THEN Outcome(t, "none", filtered_list)
    ELSE LET node == Get(t, taxonomy_list[i])
             t2 == Touch(t, taxonomy_list[i])
         IN  IF node.kind # "Node"
             THEN Outcome(t2, "AttributeError", <<>>)
             ELSE LET w == walk_up(t2, node.node_id, <<node.node_id>>)
                      tree_depth == Len(w.val) - 1
                  IN  IF w.exc # "none"
                      THEN Outcome(w.tree, w.exc, <<>>)
                      ELSE filter_loop(w.tree, taxonomy_list, i + 1, min_tree_depth,
                                       IF tree_depth < min_tree_depth
                                       THEN filtered_list
                                       ELSE Append(filtered_list, taxonomy_list[i]))

\* Tree.filter_taxonomy_list
filter_taxonomy_list(t, taxonomy_list, min_tree_depth) ==
    filter_loop(t, taxonomy_list, 1, min_tree_depth, <<>>)

\* line 185: lineage.insert(0, taxonomy_id) at each step puts the root first
RootFirst(passed) == Reverse(passed)

\* Tree.taxonomic_lineage
taxonomic_lineage(t, taxonomy) ==
    LET node == Get(t, taxonomy)
        t2 == Touch(t, taxonomy)
    IN  IF node.kind # "Node"
        THEN Outcome(t2, "AttributeError", <<>>)
        ELSE LET w == walk_up(t2, node.node_id, <<node.node_id>>)
             IN  IF w.exc # "none"
                 THEN Outcome(w.tree, w.exc, <<>>)
                 ELSE Outcome(w.tree, "none", RootFirst(w.val))

\* Tree.taxonomy_id_to_name; "{name} ({digit})" is given as <<name, digit>>
taxonomy_id_to_name(t, id_map, key) ==
    IF key \in DOMAIN id_map
    THEN Outcome(t, "none", <<id_map[key], key>>)
    ELSE LET node == Get(t, key)
         IN  IF node.kind = "Node"
             THEN Outcome(Touch(t, key), "none", <<node.taxonomy, key>>)
             ELSE Outcome(Touch(t, key), "AttributeError", <<>>)

\* index_of_list_items, lines 400-407: indexes as the keys in insertion order
\* and the highest Python index seen for each, after the items of l from the
\* i-th on ...
RECURSIVE index_items(_, _, _)
index_items(l, i, indexes) ==
    IF i > Len(l) THEN indexes
    ELSE LET item == l[i]
             updated == IF item \in Range(indexes.keys)
                        THEN IF indexes.at[item] < i - 1
                             THEN [indexes EXCEPT !.at[item] = i - 1]
                             ELSE indexes
                        ELSE [keys |-> Append(indexes.keys, item),
                              at |-> indexes.at @@ (item :> i - 1)]
         IN  index_items(l, i + 1, updated)

\* ... and after the lists from the k-th on
RECURSIVE index_lists(_, _, _)
index_lists(lists, k, indexes) ==
    IF k > Len(lists) THEN indexes
    ELSE index_lists(lists, k + 1, index_items(lists[k], 1, indexes))

\* line 408 without the sort: the keys in insertion order
InsertionOrder(keys, at) == keys

\* line 408: sorted(indexes.items(), key=lambda t: t[1], reverse=True), which
\* is stable: among equal indexes the insertion order stays
RECURSIVE SortedByIndex(_, _)
SortedByIndex(keys, at) ==
    IF keys = <<>> THEN <<>>
    ELSE LET first == CHOOSE i \in DOMAIN keys :
                          /\ \A j \in DOMAIN keys : at[keys[j]] <= at[keys[i]]
                          /\ \A j \in 1..(i - 1) : at[keys[j]] < at[keys[i]]
             rest == SubSeq(keys, 1, first - 1) \o SubSeq(keys, first + 1, Len(keys))
         IN  <<keys[first]>> \o SortedByIndex(rest, at)

\* index_of_list_items, as the keys of the OrderedDict it returns
index_of_list_items(lists) ==
    LET indexes == index_lists(lists, 1, [keys |-> <<>>, at |-> <<>>])
    IN  SortedByIndex(indexes.keys, indexes.at)

\* line 219: lineage_counts.update(lineage)
RECURSIVE UpdateCounts(_, _, _)
UpdateCounts(counts, lineage, i) ==
    IF i > Len(lineage) THEN counts
    ELSE UpdateCounts(Bump(counts, lineage[i]), lineage, i + 1)

\* lines 217-220: the loop over taxonomy_list, from the i-th on.  lineages is
\* the dictionary, order its keys in insertion order.
RECURSIVE lineages_loop(_, _, _, _, _, _)
lineages_loop(t, taxonomy_list, i, lineage_counts, lineages, order) ==
    IF i > Len(taxonomy_list)
    THEN [tree |-> t, exc |-> "none", lineage_counts |-> lineage_counts,
          lineages |-> lineages, order |-> order]
    ELSE LET l == taxonomic_lineage(t, taxonomy_list[i])
             id == Get(l.tree, taxonomy_list[i]).node_id
         IN  IF l.exc # "none"
             THEN [tree |-> l.tree, exc |-> l.exc, lineage_counts |-> lineage_counts,
                   lineages |-> lineages, order |-> order]
             ELSE lineages_loop(l.tree, taxonomy_list, i + 1,
                                UpdateCounts(lineage_counts, l.val, 1),
                                Put(lineages, id, l.val),
                                IF id \in DOMAIN lineages THEN order ELSE Append(order, id))

\* lines 222-224: the first of lineage_indexes, from the i-th on, whose count
\* is above the cutoff (in hundredths); line 225: "1" if there is none
RECURSIVE first_above(_, _, _, _)
first_above(lineage_indexes, i, lineage_counts, cutoff100) ==
    IF i > Len(lineage_indexes) THEN "1"
    ELSE IF lineage_counts[lineage_indexes[i]] * 100 > cutoff100 THEN lineage_indexes[i]
    ELSE first_above(lineage_indexes, i + 1, lineage_counts, cutoff100)

\* Tree.lca_majority; majority_cutoff is in hundredths.  The value is the
\* pair (majority id, lineages).
lca_majority(t, taxonomy_list, cutoff100) ==
    LET r == lineages_loop(t, taxonomy_list, 1, <<>>, <<>>, <<>>)
        lineage_indexes ==
            index_of_list_items([k \in 1..Len(r.order) |-> r.lineages[r.order[k]]])
    IN  IF r.exc # "none"
        THEN Outcome(r.tree, r.exc, <<>>)
        ELSE Outcome(r.tree, "none",
                     <<first_above(lineage_indexes, 1, r.lineage_counts, cutoff100),
                       r.lineages>>)

NoCall == [op |-> "none", taxonomy |-> "", bitscore |-> 0, max_hits |-> 0, top_fraction |-> 0]
NoRet == [exc |-> "none", val |-> ""]
NoBefore == [names |-> <<>>, bitscores |-> <<>>, aligned |-> TRUE]

(***************************************************************************)
(* The taxonomy file and the life of a Tree: __init__ reads the file line  *)
(* by line, then the queries are called in any order.                      *)
(***************************************************************************)
WellFormedLines == {<<NameOf[i], TAB, i, TAB, p>> : i \in Ids, p \in Ids}
OtherLines ==
    { <<>>,                                     \* a blank line
      <<"x">>,
      <<"x", TAB, "1">>,
      <<"x", TAB, "2">>,
      <<"a", TAB, "2", TAB>>,                   \* an empty last field
      <<"x", TAB, "2", TAB, "3", TAB, "1">>,
      <<"x", TAB, "2", TAB, "2", TAB, "1">> }
Lines == WellFormedLines \cup OtherLines

NoTreeCall == [op |-> "none", taxa |-> <<>>, num |-> 0, id_map |-> <<>>, threshold |-> 0]
NoTreeRet == [exc |-> "none", val |-> <<>>]

NoResolved == [contig |-> "", orf |-> "", exc |-> "none", val |-> ""]

ParseUnused ==
    /\ params = [orf_summary |-> "best", min_bitscore |-> 0, max_hits_per_orf |-> 1,
                 top_fraction_of_hits |-> 0, lca_threshold |-> 1000]
    /\ contigs = <<>>
    /\ nrecords = 0
    /\ ppc = "unused"
    /\ presolved = NoResolved
    /\ orf_assignments = <<>>

TreeUnused ==
    /\ tree = EmptyTree
    /\ tpc = "unused"
    /\ nlines = 0
    /\ tcall = NoTreeCall
    /\ tret = NoTreeRet
    /\ tbefore = EmptyTree

NoStatsCall == [items |-> <<>>, key |-> ""]
NoStatsRet == [exc |-> "none", one |-> FALSE, count |-> 0, max_count |-> 0, dropped |-> FALSE]

StatsUnused ==
    /\ spc = "unused"
    /\ scall = NoStatsCall
    /\ sret = NoStatsRet

HitsUnused ==
    /\ names = <<>>
    /\ bitscores = <<>>
    /\ hpc = "unused"
    /\ hcall = NoCall
    /\ hret = NoRet
    /\ before = NoBefore
    /\ aligned = TRUE

\* line 52, before the first line of the file
TreeInit ==
    /\ HitsUnused
    /\ StatsUnused
    /\ ParseUnused
    /\ tree = EmptyTree
    /\ tpc = "building"
    /\ nlines = 0
    /\ tcall = NoTreeCall
    /\ tret = NoTreeRet
    /\ tbefore = EmptyTree

\* lines 55-62: one turn of the loop over the file
ReadLine(line) ==
    /\ tpc = "building"
    /\ nlines < MaxLines
    /\ nlines' = nlines + 1
    /\ tbefore' = tree
    /\ tcall' = [NoTreeCall EXCEPT !.op = "line", !.taxa = line]
    /\ LET toks == Toks(line)
           exc == CheckIds(toks)
       IN  IF exc # "none"
           THEN /\ tpc' = "failed"
                /\ tret' = [exc |-> exc, val |-> <<>>]
                /\ tree' = tree
           ELSE /\ tpc' = "building"
                /\ tret' = NoTreeRet
                /\ tree' = AddRow(tree, toks)
    /\ UNCHANGED <<statsVars, hitsVars, parseVars>>

\* the file is exhausted: __init__ returns the Tree
EndOfFile ==
    /\ tpc = "building"
    /\ tpc' = "idle"
    /\ nlines' = 0
    /\ tcall' = NoTreeCall
    /\ tret' = NoTreeRet
    /\ tbefore' = EmptyTree
    /\ UNCHANGED <<statsVars, tree, hitsVars, parseVars>>

\* a call of a query, given as its outcome on the tree
Query(op, taxa, num, id_map, out) ==
    /\ tpc = "idle"
    /\ tbefore' = tree
    /\ tcall' = [NoTreeCall EXCEPT !.op = op, !.taxa = taxa, !.num = num, !.id_map = id_map]
    /\ tree' = out.tree
    /\ tret' = [exc |-> out.exc, val |-> out.val]
    /\ tpc' = IF out.exc = "NoReturn" THEN "hung" ELSE "returned"
    /\ UNCHANGED <<statsVars, nlines, hitsVars, parseVars>>

Lca(taxonomies, threshold) ==
    Query("lca", taxonomies, threshold, <<>>, lca(tree, taxonomies, threshold))

FilterTaxonomyList(taxonomy_list, min_tree_depth) ==
    Query("filter_taxonomy_list", taxonomy_list, min_tree_depth, <<>>,
          filter_taxonomy_list(tree, taxonomy_list, min_tree_depth))

TaxonomicLineage(taxonomy) ==
    Query("taxonomic_lineage", <<taxonomy>>, 0, <<>>, taxonomic_lineage(tree, taxonomy))

TaxonomyIdToName(id_map, key) ==
    Query("taxonomy_id_to_name", <<key>>, 0, id_map, taxonomy_id_to_name(tree, id_map, key))

\* the caller goes on after a call that returned or raised
TreeResume ==
    /\ tpc = "returned"
    /\ tpc' = "idle"
    /\ tcall' = NoTreeCall
    /\ tret' = NoTreeRet
    /\ tbefore' = EmptyTree
    /\ UNCHANGED <<statsVars, tree, nlines, hitsVars, parseVars>>

TreeNext ==
    \/ \E line \in Lines : ReadLine(line)
    \/ EndOfFile
    \/ \E l \in QueryLists, th \in Thresholds : Lca(l, th)
    \/ \E l \in QueryLists, d \in 0..MaxDepth : FilterTaxonomyList(l, d)
    \/ \E x \in QueryTaxa : TaxonomicLineage(x)
    \/ \E m \in IdMaps, x \in QueryTaxa : TaxonomyIdToName(m, x)
    \/ TreeResume

SpecTree == TreeInit /\ [][TreeNext]_vars

(***************************************************************************)
(* parse_blast_results                                                     *)
(*                                                                         *)
(* A line of the BLAST table is given by its fields: qseqid as the pair    *)
(* (contig_name, orf_idx) that rpartition("_") yields, sseqid, pident,     *)
(* length, evalue (in units of 1e-7) and bitscore.                         *)
(***************************************************************************)
min_identity == 60
min_length == 60
max_evalue == 10

\* parse_annotation_map's result, each product given by what
\* tax_re.findall(raw_product) finds in it; "s4" is not in the map
annotations == ("s1" :> <<"a">>) @@ ("s2" :> <<"b">>) @@ ("s3" :> <<>>)
SSeqIds == {"s1", "s2", "s3", "s4"}

Hsps == [contig_name : {"c1", "c2"}, orf_idx : {"1"}, sseqid : SSeqIds,
         pident : {60}, length : {59, 60}, evalue : {10}, bitscore : Scores]

ParamChoices == [orf_summary : {"lca", "best", "majority"},
                 min_bitscore : {0, 1},
                 max_hits_per_orf : {1, MaxHits},
                 top_fraction_of_hits : {0, 100},
                 lca_threshold : {1000}]

\* a tree as Tree.__init__ builds it from three well-formed lines
ExampleTree ==
    AddRow(AddRow(AddRow(EmptyTree, Toks(<<"root", TAB, "1", TAB, "1">>)),
                  Toks(<<"a", TAB, "2", TAB, "1">>)),
           Toks(<<"b", TAB, "3", TAB, "2">>))

\* lines 511-512: the user filtering cutoffs
FilteredOut(hsp, min_bitscore) ==
    \/ hsp.length < min_length
    \/ hsp.pident < min_identity
    \/ hsp.bitscore < min_bitscore
    \/ hsp.evalue > max_evalue

\* contigs[contig_name][orf_idx] on the defaultdict of defaultdicts
HitsAt(c, contig_name, orf_idx) ==
    IF contig_name \in DOMAIN c /\ orf_idx \in DOMAIN c[contig_name]
    THEN c[contig_name][orf_idx]
    ELSE EmptyHits

SetHits(c, contig_name, orf_idx, h) ==
    Put(c, contig_name,
        Put(IF contig_name \in DOMAIN c THEN c[contig_name] ELSE <<>>, orf_idx, h))

\* lines 507-530: what one line of the table does to contigs
Ingest(c, hsp, p) ==
    IF FilteredOut(hsp, p.min_bitscore) THEN c
    ELSE IF annotations[hsp.sseqid] = <<>> THEN c
    ELSE SetHits(c, hsp.contig_name, hsp.orf_idx,
                 BlastHitsAdd(HitsAt(c, hsp.contig_name, hsp.orf_idx),
                              annotations[hsp.sseqid][1], hsp.bitscore,
                              p.max_hits_per_orf, p.top_fraction_of_hits))

ParseInit ==
    /\ HitsUnused
    /\ StatsUnused
    /\ tree = ExampleTree
    /\ tpc = "idle"
    /\ nlines = 0
    /\ tcall = NoTreeCall
    /\ tret = NoTreeRet
    /\ tbefore = EmptyTree
    /\ params \in ParamChoices
    /\ contigs = <<>>
    /\ nrecords = 0
    /\ ppc = "ingest"
    /\ presolved = NoResolved
    /\ orf_assignments = <<>>

\* lines 507-530: one turn of the loop over the table
ReadHsp(hsp) ==
    /\ ppc = "ingest"
    /\ nrecords < MaxRecords
    /\ nrecords' = nrecords + 1
    /\ IF ~FilteredOut(hsp, params.min_bitscore) /\ hsp.sseqid \notin DOMAIN annotations
       THEN \* lines 517-519: logging.critical, then the exit
            ppc' = "aborted" /\ contigs' = contigs
       ELSE ppc' = "ingest" /\ contigs' = Ingest(contigs, hsp, params)
    /\ UNCHANGED <<statsVars, params, presolved, orf_assignments, hitsVars, treeVars>>

\* the table is exhausted: on to the second loop
EndOfTable ==
    /\ ppc = "ingest"
    /\ ppc' = "resolve"
    /\ nrecords' = 0
    /\ UNCHANGED <<statsVars, params, contigs, presolved, orf_assignments, hitsVars, treeVars>>

Resolved(contig, orf) ==
    contig \in DOMAIN orf_assignments /\ orf \in DOMAIN orf_assignments[contig]

\* lines 534-543: one turn of the second loop.  The order of the turns is
\* that of the dictionaries, which the code does not rely on.
Resolve(contig, orf) ==
    /\ ppc = "resolve"
    /\ contig \in DOMAIN contigs
    /\ orf \in DOMAIN contigs[contig]
    /\ ~Resolved(contig, orf)
    /\ LET hits == contigs[contig][orf]
           flipped == [hits EXCEPT !.names = Reverse(hits.names)]
           out == IF params.orf_summary = "best"
                  THEN [hits |-> hits, tree |-> tree, r |-> BestHitOf(hits.names)]
                  ELSE IF params.orf_summary = "majority"
                  THEN [hits |-> [hits EXCEPT !.names = MajorityNames(hits.names)],
                        tree |-> tree, r |-> MajorityOf(hits.names)]
                  ELSE LET l == lca(tree, flipped.names, params.lca_threshold)
                       IN  [hits |-> flipped, tree |-> l.tree,
                            r |-> [exc |-> l.exc,
                                   val |-> IF l.exc = "none" THEN l.val[1] ELSE ""]]
       IN  /\ contigs' = SetHits(contigs, contig, orf, out.hits)
           /\ tree' = out.tree
           /\ presolved' = [contig |-> contig, orf |-> orf, exc |-> out.r.exc, val |-> out.r.val]
           /\ IF out.r.exc = "none"
              THEN /\ orf_assignments' =
                          Put(orf_assignments, contig,
                              Put(IF contig \in DOMAIN orf_assignments
                                  THEN orf_assignments[contig] ELSE <<>>, orf, out.r.val))
                   /\ ppc' = "resolve"
              ELSE /\ orf_assignments' = orf_assignments
                   /\ ppc' = "failed"
    /\ UNCHANGED <<statsVars, params, nrecords, hitsVars, tpc, nlines, tcall, tret, tbefore>>

\* line 544: return orf_assignments
ReturnAssignments ==
    /\ ppc = "resolve"
    /\ \A contig \in DOMAIN contigs : \A orf \in DOMAIN contigs[contig] : Resolved(contig, orf)
    /\ ppc' = "done"
    /\ UNCHANGED <<statsVars, params, contigs, nrecords, presolved, orf_assignments, hitsVars, treeVars>>

ParseNext ==
    \/ \E hsp \in Hsps : ReadHsp(hsp)
    \/ EndOfTable
    \/ \E contig \in DOMAIN contigs : \E orf \in DOMAIN contigs[contig] : Resolve(contig, orf)
    \/ ReturnAssignments

SpecParse == ParseInit /\ [][ParseNext]_vars

HitsInit ==
    /\ ParseUnused
    /\ StatsUnused
    /\ TreeUnused
    /\ names = <<>>
    /\ bitscores = <<>>
    /\ hpc = "idle"
    /\ hcall = NoCall
    /\ hret = NoRet
    /\ before = NoBefore
    /\ aligned = TRUE

Add(taxonomy, bitscore, max_hits, top_fraction) ==
    /\ hpc = "idle"
    /\ before' = [names |-> names, bitscores |-> bitscores, aligned |-> aligned]
    /\ LET h == BlastHitsAdd([names |-> names, bitscores |-> bitscores],
                             taxonomy, bitscore, max_hits, top_fraction)
       IN  /\ names' = h.names
           /\ bitscores' = h.bitscores
    /\ hcall' = [op |-> "add", taxonomy |-> taxonomy, bitscore |-> bitscore,
                 max_hits |-> max_hits, top_fraction |-> top_fraction]
    /\ hret' = NoRet
    /\ hpc' = "returned"
    /\ UNCHANGED <<statsVars, aligned, treeVars, parseVars>>

BestHit ==
    /\ hpc = "idle"
    /\ before' = [names |-> names, bitscores |-> bitscores, aligned |-> aligned]
    /\ hcall' = [NoCall EXCEPT !.op = "best_hit"]
    /\ hret' = BestHitOf(names)
    /\ hpc' = "returned"
    /\ UNCHANGED <<statsVars, names, bitscores, aligned, treeVars, parseVars>>

Majority ==
    /\ hpc = "idle"
    /\ before' = [names |-> names, bitscores |-> bitscores, aligned |-> aligned]
    /\ hcall' = [NoCall EXCEPT !.op = "majority"]
    /\ hret' = MajorityOf(names)
    /\ names' = MajorityNames(names)
    /\ hpc' = "returned"
    /\ aligned' = (aligned /\ names' = names)
    /\ UNCHANGED <<statsVars, bitscores, treeVars, parseVars>>

Resume ==
    /\ hpc = "returned"
    /\ hpc' = "idle"
    /\ hcall' = NoCall
    /\ hret' = NoRet
    /\ before' = NoBefore
    /\ UNCHANGED <<statsVars, names, bitscores, aligned, treeVars, parseVars>>

HitsNext ==
    \/ \E t \in HitTaxa, b \in Scores, m \in MaxHitsChoices, f \in TopFractions :
           Add(t, b, m, f)
    \/ BestHit
    \/ Majority
    \/ Resume

SpecHits == HitsInit /\ [][HitsNext]_vars

(***************************************************************************)
(* nettleton_pvalue.  The float it returns is not computed: an outcome     *)
(* tells whether the call returned the integer 1 or erfc(sqrt(t / 2)), and *)
(* for the latter the two counts t is computed from and whether t was      *)
(* computed by the except branch, which leaves the max_count term out.     *)
(***************************************************************************)
MaxItems == 4
StatTaxa == {"A", "B", "C"}
ItemLists == UNION {[1..n -> StatTaxa] : n \in 0..MaxItems}

\* the keys of Counter(s): the distinct items in first-occurrence order
RECURSIVE FirstSeen(_)
FirstSeen(s) ==
    IF s = <<>> THEN <<>>
    ELSE LET r == FirstSeen(SubSeq(s, 1, Len(s) - 1))
         IN  IF s[Len(s)] \in Range(r) THEN r ELSE Append(r, s[Len(s)])

\* sorted(keys, key=count, reverse=True): stable, so that among equal counts
\* the order of keys stays
RECURSIVE SortedByCount(_, _)
SortedByCount(keys, s) ==
    IF keys = <<>> THEN <<>>
    ELSE LET first == CHOOSE i \in DOMAIN keys :
                          /\ \A j \in DOMAIN keys : CountOf(s, keys[j]) <= CountOf(s, keys[i])
                          /\ \A j \in 1..(i - 1) : CountOf(s, keys[j]) < CountOf(s, keys[i])
         IN  <<keys[first]>> \o
             SortedByCount(SubSeq(keys, 1, first - 1) \o SubSeq(keys, first + 1, Len(keys)), s)

\* Counter(s).most_common(): the (item, count) pairs
most_common(s) ==
    LET keys == SortedByCount(FirstSeen(s), s)
    IN  [i \in 1..Len(keys) |-> <<keys[i], CountOf(s, keys[i])>>]

\* lines 565-573: the count the key's count is compared with
MaxCount(items, key) ==
    LET mc == most_common(items)
    IN  IF mc[1][1] = key
        THEN IF Len(mc) < 2 THEN 0 ELSE mc[2][2]
        ELSE mc[1][2]

\* line 574 with < in place of <=
ReturnsOneStrict(count, max_count) == count < max_count
\* line 574: if item_counts[key] <= max_count
ReturnsOne(count, max_count) == count <= max_count

\* math.log(num / den) raises ValueError for an argument of 0.0
LogRaises(num, den) == num = 0

StatsOutcome(exc, one, count, max_count, dropped) ==
    [exc |-> exc, one |-> one, count |-> count, max_count |-> max_count, dropped |-> dropped]

nettleton_pvalue(items, key) ==
    IF key \notin Range(items) THEN StatsOutcome("AssertionError", FALSE, 0, 0, FALSE)
    ELSE IF Len(items) = 1 THEN StatsOutcome("none", TRUE, 0, 0, FALSE)
    ELSE LET count == CountOf(items, key)
             max_count == MaxCount(items, key)
         IN  IF ReturnsOne(count, max_count)
             THEN StatsOutcome("none", TRUE, count, max_count, FALSE)
             ELSE StatsOutcome("none", FALSE, count, max_count,
                               LogRaises(2 * max_count, max_count + count))

StatsInit ==
    /\ HitsUnused
    /\ TreeUnused
    /\ ParseUnused
    /\ spc = "idle"
    /\ scall = NoStatsCall
    /\ sret = NoStatsRet

NettletonPvalue(items, key) ==
    /\ spc = "idle"
    /\ scall' = [items |-> items, key |-> key]
    /\ sret' = nettleton_pvalue(items, key)
    /\ spc' = "returned"
    /\ UNCHANGED <<hitsVars, treeVars, parseVars>>

StatsResume ==
    /\ spc = "returned"
    /\ spc' = "idle"
    /\ scall' = NoStatsCall
    /\ sret' = NoStatsRet
    /\ UNCHANGED <<hitsVars, treeVars, parseVars>>

StatsNext ==
    \/ \E items \in ItemLists, key \in StatTaxa : NettletonPvalue(items, key)
    \/ StatsResume

SpecStats == StatsInit /\ [][StatsNext]_vars

(***************************************************************************)
(* The consensus calls on a Tree built from rows of three fields.          *)
(* majority_cutoff is given in hundredths, majority_threshold in percent.   *)
(***************************************************************************)
Cutoffs100 == {50 * k : k \in 0..(2 * MaxList)}

\* the rows of the file: the root id's row names the root id as its parent
ConsensusLines == {line \in WellFormedLines : line[3] = "1" => line[5] = "1"}
\* the taxa listed: ids and a name, in the tree or not as the file has it
ConsensusTaxa == Ids \cup {NameOf["2"]}
ConsensusLists == UNION {[1..n -> ConsensusTaxa] : n \in 0..MaxList}

LcaMajority(taxonomy_list, cutoff100) ==
    Query("lca_majority", taxonomy_list, cutoff100, <<>>,
          lca_majority(tree, taxonomy_list, cutoff100))

StarThresholds == {25, 50, 75}

\* lines 252-256: the loop over taxonomy_counts.items(), from the i-th on
RECURSIVE counts_loop(_, _, _, _, _, _)
counts_loop(t, taxonomy_counts, i, lineages, majority_id, aggregate_counts) ==
    IF i > Len(taxonomy_counts) THEN aggregate_counts
    ELSE LET taxonomy_id == Get(t, taxonomy_counts[i][1]).node_id
             id == IF majority_id \in Range(lineages[taxonomy_id])
                   THEN majority_id ELSE taxonomy_id
         IN  counts_loop(t, taxonomy_counts, i + 1, lineages, majority_id,
                         aggregate_counts \o [k \in 1..taxonomy_counts[i][2] |-> id])

\* Tree.counts_to_majority_list; taxonomy_counts as its (item, count) pairs
\* in insertion order
counts_to_majority_list(t, taxonomy_counts, lineages, majority_id) ==
    counts_loop(t, taxonomy_counts, 1, lineages, majority_id, <<>>)

\* Counter(s).items(): the (item, count) pairs in insertion order
CounterItems(s) ==
    LET keys == FirstSeen(s)
    IN  [i \in 1..Len(keys) |-> <<keys[i], CountOf(s, keys[i])>>]

\* line 297 with >= in place of >
AtOrAboveCutoff(count, majority_cutoff) == count * 100 >= majority_cutoff
\* line 297: taxonomy_counts.most_common()[0][1] > majority_cutoff
AboveCutoff(count, majority_cutoff) == count * 100 > majority_cutoff

\* lines 291-292 and 305: the value is the pair (taxonomy, pvalue)
StarOutcome(t, majority, p) ==
    IF p.exc # "none" THEN Outcome(t, p.exc, <<>>) ELSE Outcome(t, "none", <<majority, p>>)

\* lines 302-304: from lca_majority's outcome m on
star_from_majority(taxonomy_list, m) ==
    LET aggregate_counts == counts_to_majority_list(m.tree, CounterItems(taxonomy_list),
                                                    m.val[2], m.val[1])
    IN  IF m.exc # "none" THEN Outcome(m.tree, m.exc, <<>>)
        ELSE StarOutcome(m.tree, m.val[1], nettleton_pvalue(aggregate_counts, m.val[1]))

\* lines 290-304: from filter_taxonomy_list's outcome f on
star_from_filtered(f, majority_threshold) ==
    LET majority_cutoff == Len(f.val) * majority_threshold
        top == most_common(f.val)[1]
    IN  IF f.exc # "none" THEN Outcome(f.tree, f.exc, <<>>)
        ELSE IF f.val = <<>>
        THEN StarOutcome(f.tree, "root", StatsOutcome("none", TRUE, 0, 0, FALSE))
        ELSE IF AboveCutoff(top[2], majority_cutoff)
        THEN StarOutcome(f.tree, top[1], nettleton_pvalue(f.val, top[1]))
        ELSE star_from_majority(f.val, lca_majority(f.tree, f.val, majority_cutoff))

\* Tree.lca_star; majority_threshold is given in percent
lca_star(t, taxonomy_list, min_tree_depth, majority_threshold) ==
    star_from_filtered(filter_taxonomy_list(t, taxonomy_list, min_tree_depth),
                       majority_threshold)

LcaStar(taxonomy_list, min_tree_depth, majority_threshold) ==
    /\ tpc = "idle"
    /\ \E out \in {lca_star(tree, taxonomy_list, min_tree_depth, majority_threshold)} :
        /\ tbefore' = tree
        /\ tcall' = [NoTreeCall EXCEPT !.op = "lca_star", !.taxa = taxonomy_list,
                                       !.num = min_tree_depth,
                                       !.threshold = majority_threshold]
        /\ tree' = out.tree
        /\ tret' = [exc |-> out.exc, val |-> out.val]
        /\ tpc' = IF out.exc = "NoReturn" THEN "hung" ELSE "returned"
        /\ UNCHANGED <<statsVars, nlines, hitsVars, parseVars>>

ConsensusNext ==
    \/ \E line \in ConsensusLines : ReadLine(line)
    \/ EndOfFile
    \/ \E l \in ConsensusLists, c \in Cutoffs100 : LcaMajority(l, c)
    \/ \E l \in ConsensusLists, d \in 0..MaxDepth, th \in StarThresholds : LcaStar(l, d, th)
    \/ TreeResume

SpecConsensus == TreeInit /\ [][ConsensusNext]_vars

(***************************************************************************)
(* Vocabulary of the properties: multisets of retained (name, bitscore)    *)
(* entries, extreme scores.  A property of a call is stated in the state   *)
(* the call returns in, over `before` (the accumulator as the call found   *)
(* it), the arguments in hcall and the accumulator as it is now.           *)
(***************************************************************************)
MaxOf(S) == CHOOSE x \in S : \A y \in S : y <= x
MinOf(S) == CHOOSE x \in S : \A y \in S : x <= y

SeqBag(s) == [x \in Range(s) |-> CountOf(s, x)]
Entries(ns, bs) == SeqBag([i \in 1..Len(ns) |-> <<ns[i], bs[i]>>])

Sorted(bs) == \A i, j \in DOMAIN bs : i <= j => bs[i] <= bs[j]

Added == hpc = "returned" /\ hcall.op = "add"
Incoming == <<hcall.taxonomy, hcall.bitscore>>
Untouched == names = before.names /\ bitscores = before.bitscores
WasFull == Len(before.names) + 1 > hcall.max_hits

\* the entries after the call are those before it plus the incoming hit
InsertedNoEviction ==
    Entries(names, bitscores) = Entries(before.names, before.bitscores) (+) SetToBag({Incoming})

\* ... less one entry whose bitscore is the lowest of them all
InsertedLowestEvicted ==
    LET all == Entries(before.names, before.bitscores) (+) SetToBag({Incoming})
        low == MinOf({p[2] : p \in BagToSet(all)})
    IN  \E p \in BagToSet(all) :
            /\ p[2] = low
            /\ Entries(names, bitscores) = all (-) SetToBag({p})

InsertedCall == IF WasFull THEN InsertedLowestEvicted ELSE InsertedNoEviction

\* C1 as stated (for a non-zero incoming bitscore): with top_fraction set and
\* a non-empty accumulator, add discards the hit exactly when its bitscore is
\* below lowest_retained * (1 - top_fraction), and inserts it otherwise.
C1_AsStated ==
    (Added /\ hcall.top_fraction # 0 /\ before.bitscores # <<>> /\ hcall.bitscore # 0) =>
        LET lowest == MinOf(Range(before.bitscores))
        IN  IF hcall.bitscore * 100 < lowest * (100 - hcall.top_fraction)
            THEN Untouched
            ELSE InsertedCall

\* C1 amended: with top_fraction set and a non-empty accumulator, add discards
\* the hit exactly when its bitscore is below highest_retained * (1 - top_fraction)
\* or is zero, and inserts it otherwise.
C1_TopFractionFloor ==
    (Added /\ hcall.top_fraction # 0 /\ before.bitscores # <<>>) =>
        LET highest == MaxOf(Range(before.bitscores))
        IN  IF \/ hcall.bitscore * 100 < highest * (100 - hcall.top_fraction)
               \/ hcall.bitscore = 0
            THEN Untouched
            ELSE InsertedCall

\* an add with top_fraction set has discarded a non-zero hit that scores at
\* least lowest * (1 - top_fraction) but below highest * (1 - top_fraction)
C1_Witness ==
    /\ Added /\ hcall.top_fraction # 0 /\ hcall.bitscore # 0
    /\ Len(before.bitscores) >= 2 /\ ~WasFull
    /\ hcall.bitscore * 100 >= MinOf(Range(before.bitscores)) * (100 - hcall.top_fraction)
    /\ hcall.bitscore * 100 < MaxOf(Range(before.bitscores)) * (100 - hcall.top_fraction)
    /\ Untouched

\* C2 as stated: majority() with repeated names returns a most frequent name,
\* and among the names sharing the highest count the one with the highest
\* retained bitscore; with all names distinct it returns what best_hit() does.
C2_AsStated ==
    (hpc = "returned" /\ hcall.op = "majority" /\ before.aligned /\ before.names # <<>>) =>
        LET ns == before.names
            bs == before.bitscores
        IN  /\ hret.exc = "none"
            /\ IF NoRepeats(ns)
               THEN hret.val = ns[Len(ns)]
               ELSE LET top == MaxOf({CountOf(ns, t) : t \in Range(ns)})
                        tied == {t \in Range(ns) : CountOf(ns, t) = top}
                        best(t) == MaxOf({bs[i] : i \in {j \in DOMAIN ns : ns[j] = t}})
                    IN  /\ hret.val \in tied
                        /\ \A u \in tied : best(u) <= best(hret.val)

\* C3: an add that passes max_hits N to an accumulator holding at most N
\* entries leaves at most N; an eviction removes an entry of lowest bitscore,
\* the incoming one included; a hit below every entry of a full accumulator
\* leaves it as it was.
C3_BoundedLowestEvicted ==
    (Added /\ Len(before.names) <= hcall.max_hits) =>
        /\ Len(names) <= hcall.max_hits
        /\ Len(bitscores) = Len(names)
        /\ Untouched \/ InsertedCall
        /\ (/\ Len(before.names) = hcall.max_hits
            /\ \A i \in DOMAIN before.bitscores : hcall.bitscore < before.bitscores[i])
           => Untouched

\* an add has pushed a full accumulator over max_hits and evicted the entry
\* that was at its head
C3_Witness ==
    /\ Added /\ before.aligned
    /\ Len(before.names) = hcall.max_hits /\ hcall.max_hits >= 2
    /\ hcall.bitscore > before.bitscores[1]
    /\ names # before.names
    /\ Entries(names, bitscores) =
           (Entries(before.names, before.bitscores) (+) SetToBag({Incoming}))
               (-) SetToBag({<<before.names[1], before.bitscores[1]>>})

\* C4: the retained bitscores are in non-decreasing order from head to tail,
\* and an add keeps each name with the bitscore it was added with: the
\* (name, bitscore) entries it leaves are among those it found and the
\* incoming hit.
C4_SortedAndPaired ==
    /\ Sorted(bitscores)
    /\ Len(names) = Len(bitscores)
    /\ Added => Entries(names, bitscores) \sqsubseteq
                    (Entries(before.names, before.bitscores) (+) SetToBag({Incoming}))

\* a hit scoring between two retained hits has been inserted between them
C4_Witness ==
    /\ Added /\ before.aligned
    /\ Len(bitscores) >= 3
    /\ bitscores[1] < bitscores[2] /\ bitscores[2] < bitscores[3]
    /\ hcall.bitscore = bitscores[2] /\ hcall.taxonomy = names[2]
    /\ names[1] # names[2]
    /\ Len(before.names) = Len(names) - 1

\* the call has put the incoming hit at Python index i of the accumulator it
\* found, and the hit is still there after the eviction, if there was one
Placed(i) ==
    LET n == InsertAt(before.names, i, hcall.taxonomy)
        b == InsertAt(before.bitscores, i, hcall.bitscore)
    IN  \/ names = n /\ bitscores = b
        \/ i >= 1 /\ Len(n) > hcall.max_hits /\ names = Tail(n) /\ bitscores = Tail(b)

AddedAndRetained == Added /\ before.aligned /\ ~Untouched

\* C13 as stated: entries with equal bitscore keep their insertion order: a
\* hit that add retains is positioned after (farther from the head than)
\* every hit of the same bitscore that was retained before it.
C13_AsStated ==
    AddedAndRetained =>
        \E i \in 0..Len(before.names) :
            /\ Placed(i)
            /\ \A j \in DOMAIN before.bitscores :
                   before.bitscores[j] = hcall.bitscore => j <= i

\* C13 amended: entries with equal bitscore are in reverse insertion order:
\* a hit that add retains is positioned after every retained hit of lower
\* bitscore and before (closer to the head than) every retained hit of the
\* same or a higher bitscore.
C13_TiesNewestFirst ==
    AddedAndRetained =>
        \E i \in 0..Len(before.names) :
            /\ Placed(i)
            /\ \A j \in DOMAIN before.bitscores :
                   IF j <= i
                   THEN before.bitscores[j] < hcall.bitscore
                   ELSE before.bitscores[j] >= hcall.bitscore

\* a hit has been added to an accumulator that held a hit of the same
\* bitscore under another name, and now stands right before it
C13_Witness ==
    /\ AddedAndRetained
    /\ Len(names) = Len(before.names) + 1
    /\ \E k \in 1..(Len(names) - 1) :
           /\ names[k] = hcall.taxonomy /\ bitscores[k] = hcall.bitscore
           /\ names[k + 1] # names[k] /\ bitscores[k + 1] = bitscores[k]
           /\ SubSeq(names, k + 1, Len(names)) = SubSeq(before.names, k, Len(before.names))

\* C15 as stated: majority() is a read-only query: it leaves names and
\* bitscores as it found them, so that best_hit() and a repeated majority()
\* return afterwards what they would have returned before the call, and
\* each retained name stays with its bitscore.
C15_AsStated ==
    (hpc = "returned" /\ hcall.op = "majority" /\ before.aligned) =>
        /\ names = before.names
        /\ bitscores = before.bitscores
        /\ BestHitOf(names) = BestHitOf(before.names)
        /\ MajorityOf(names) = hret
        /\ Entries(names, bitscores) = Entries(before.names, before.bitscores)

(***************************************************************************)
(* Vocabulary of the Tree properties, defined on the dictionary alone: the *)
(* keys that hold a Node, the ids above an id, depth.                      *)
(***************************************************************************)
IsNode(t, key) == key \in DOMAIN t /\ t[key].kind = "Node"

\* S closed under "parent of a node other than the root id"
RECURSIVE UpSet(_, _)
UpSet(t, S) ==
    LET next == S \cup {t[i].parent_id : i \in {j \in S : j # "1" /\ IsNode(t, j)}}
    IN  IF next = S THEN S ELSE UpSet(t, next)

\* the ids on the way up from id, id included
Above(t, id) == UpSet(t, {id})
ReachesRoot(t, id) == "1" \in Above(t, id)
DepthOf(t, id) == Cardinality(Above(t, id)) - 1

\* every node's chain of parents ends at the root id
WellFormed(t) == \A k \in DOMAIN t : IsNode(t, k) => ReachesRoot(t, t[k].node_id)

Called(op) == tpc \in {"returned", "hung"} /\ tcall.op = op

\* C5 as stated: filter_taxonomy_list returns, in input order, exactly the
\* input taxa that are in the tree at depth >= min_tree_depth, and drops a
\* taxon that is no key of the tree without raising.
C5_AsStated ==
    (Called("filter_taxonomy_list") /\ WellFormed(tbefore)) =>
        LET Deep(x) == /\ IsNode(tbefore, x)
                       /\ DepthOf(tbefore, tbefore[x].node_id) >= tcall.num
        IN  /\ tret.exc = "none"
            /\ tret.val = SelectSeq(tcall.taxa, Deep)

\* C6 as stated: a line that does not split into exactly three fields is
\* skipped without failing, and reading goes on.
C6_AsStated ==
    (tcall.op = "line" /\ Len(Toks(tcall.taxa)) # 3) =>
        /\ tpc = "building"
        /\ tret.exc = "none"
        /\ tree = tbefore

\* C7 as stated: lca(L, 1.0) returns the deepest node on the lineage of every
\* element of L that is in the tree, also when L holds taxa that are not in
\* the tree or repeated ones; the root only when nothing deeper is common.
C7_AsStated ==
    (/\ Called("lca") /\ tcall.num = 1000 /\ WellFormed(tbefore)
     /\ \E i \in DOMAIN tcall.taxa : IsNode(tbefore, tcall.taxa[i])) =>
        LET known == {tbefore[tcall.taxa[i]].node_id :
                         i \in {j \in DOMAIN tcall.taxa : IsNode(tbefore, tcall.taxa[j])}}
            common == {a \in Above(tbefore, CHOOSE k \in known : TRUE) :
                          \A k \in known : a \in Above(tbefore, k)}
            deepest == CHOOSE a \in common :
                          \A b \in common : DepthOf(tbefore, b) <= DepthOf(tbefore, a)
        IN  /\ tret.exc = "none"
            /\ tret.val = <<IF deepest = "1" THEN "root" ELSE tbefore[deepest].taxonomy>>

\* C8 as stated: no query changes the key-to-node mapping of the tree.
C8_AsStated == tpc \in {"returned", "hung"} => tree = tbefore

\* what C9 promises of taxonomic_lineage(n): it returns the ids from the root
\* id to n's id, each the parent of the next
ProperLineage ==
    LET l == tret.val
        id == tbefore[tcall.taxa[1]].node_id
    IN  /\ tpc = "returned"
        /\ tret.exc = "none"
        /\ l # <<>>
        /\ l[1] = "1"
        /\ l[Len(l)] = id
        /\ \A i \in 1..(Len(l) - 1) :
               IsNode(tbefore, l[i + 1]) /\ tbefore[l[i + 1]].parent_id = l[i]
        /\ id = "1" => l = <<"1">>

\* C9 as stated: for every tree that construction accepts and every node n in
\* it, taxonomic_lineage(n) terminates and returns the ids from the root id
\* "1" down to n's id, each the parent of the next; ["1"] for the root.
C9_AsStated ==
    (Called("taxonomic_lineage") /\ IsNode(tbefore, tcall.taxa[1])) => ProperLineage

\* C10 as stated: an ORF's accumulator is resolved only after every record
\* has been ingested, and every accumulator that is resolved holds at least
\* one hit, so that best_hit() is never called on an empty accumulator.
C10_AsStated ==
    /\ (orf_assignments # <<>> \/ presolved # NoResolved) => ppc \notin {"ingest", "aborted"}
    /\ presolved # NoResolved =>
           /\ contigs[presolved.contig][presolved.orf].names # <<>>
           /\ presolved.exc # "IndexError"

(***************************************************************************)
(* Vocabulary of the nettleton_pvalue properties.                          *)
(***************************************************************************)
StatsCalled == spc = "returned" /\ scall.key \in Range(scall.items)
KeyCount == CountOf(scall.items, scall.key)
OtherCounts == {CountOf(scall.items, t) : t \in Range(scall.items) \ {scall.key}}
TopOther == IF OtherCounts = {} THEN 0 ELSE MaxOf(OtherCounts)

\* C12: nettleton_pvalue(items, key), key being one of items, returns exactly
\* 1 when items has a single element or the count of key is at most the
\* highest count among the other taxa (so also when the top two counts are
\* equal); it computes the statistic only when the count of key exceeds
\* every other taxon's count, from these two counts; a runner-up count of
\* zero leaves the runner-up term out and raises nothing.
C12_OneUnlessStrictlyAhead ==
    StatsCalled =>
        /\ sret.exc = "none"
        /\ (Len(scall.items) = 1 \/ KeyCount <= TopOther) => sret.one
        /\ ~sret.one =>
               /\ \A c \in OtherCounts : KeyCount > c
               /\ sret.count = KeyCount /\ sret.max_count = TopOther
               /\ sret.dropped <=> TopOther = 0

\* the key shares the highest count with another taxon, comes first in
\* most_common(), and 1 has been returned
C12_Witness ==
    /\ StatsCalled /\ sret.one
    /\ scall.items[1] = scall.key
    /\ KeyCount >= 2 /\ KeyCount = TopOther

(***************************************************************************)
(* Vocabulary of the consensus properties: the ids of the listed taxa, how *)
(* often an id occurs in their lineages, the lineage read off the tree.    *)
(***************************************************************************)
AllInTree == \A i \in DOMAIN tcall.taxa : IsNode(tbefore, tcall.taxa[i])
ListedId(i) == tbefore[tcall.taxa[i]].node_id
Observed == UNION {Above(tbefore, ListedId(i)) : i \in DOMAIN tcall.taxa}
Occurrences(x) == Cardinality({i \in DOMAIN tcall.taxa : x \in Above(tbefore, ListedId(i))})

IsLineageOf(l, id) ==
    /\ l # <<>>
    /\ l[1] = "1"
    /\ l[Len(l)] = id
    /\ \A k \in 1..(Len(l) - 1) :
           IsNode(tbefore, l[k + 1]) /\ tbefore[l[k + 1]].parent_id = l[k]

\* C14: on a tree whose nodes all reach the root id, lca_majority(taxa,
\* cutoff) over in-tree taxa returns an id r that occurs more than cutoff
\* times in the lineages of the listed taxa (repeats counted) or is the root
\* id "1"; no id that lies deeper in the lineages than r occurs more than
\* cutoff times; and it returns the lineage of every listed taxon under the
\* taxon's id.
C14_DeepestAboveCutoff ==
    (Called("lca_majority") /\ WellFormed(tbefore) /\ AllInTree) =>
        /\ tret.exc = "none"
        /\ LET r == tret.val[1]
               lineages == tret.val[2]
           IN  /\ Occurrences(r) * 100 > tcall.num \/ r = "1"
               /\ \A x \in Observed :
                      DepthOf(tbefore, x) > DepthOf(tbefore, r) => Occurrences(x) * 100 <= tcall.num
               /\ DOMAIN lineages = {ListedId(i) : i \in DOMAIN tcall.taxa}
               /\ \A id \in DOMAIN lineages : IsLineageOf(lineages[id], id)

\* lca_majority over two taxa has passed over an id that occurs too seldom
\* and returned an id above it that is not the root id
C14_Witness ==
    /\ Called("lca_majority") /\ WellFormed(tbefore) /\ AllInTree
    /\ tret.exc = "none"
    /\ Len(tcall.taxa) = 2
    /\ tret.val[1] # "1"
    /\ \E x \in Observed :
           /\ DepthOf(tbefore, x) > DepthOf(tbefore, tret.val[1])
           /\ Occurrences(x) * 100 <= tcall.num

\* the listed taxa that the depth filter of the call lets through
Filtered ==
    LET Deep(x) == DepthOf(tbefore, tbefore[x].node_id) >= tcall.num
    IN  SelectSeq(tcall.taxa, Deep)
IdOf(x) == IF IsNode(tbefore, x) THEN tbefore[x].node_id ELSE x
\* the number of filtered calls on whose lineage (ancestor-or-self) r lies
Support(r) ==
    Cardinality({i \in DOMAIN Filtered : IdOf(r) \in Above(tbefore, IdOf(Filtered[i]))})
FilteredIds == UNION {Above(tbefore, IdOf(Filtered[i])) : i \in DOMAIN Filtered}
TopCount == MaxOf({CountOf(Filtered, x) : x \in Range(Filtered)})

\* C11: on a tree whose nodes all reach the root id, lca_star over in-tree
\* taxa with a majority_threshold in (0, 1) returns root with p-value 1 when
\* the depth filter leaves no taxa; otherwise it returns a taxon that lies
\* on the lineage of more than len(filtered) * majority_threshold of the
\* filtered calls: a most frequent taxon itself when its count exceeds that
\* cutoff, else the deepest id whose count over the lineages exceeds it, as
\* lca_majority finds it.
C11_StarSupport ==
    (Called("lca_star") /\ WellFormed(tbefore) /\ AllInTree) =>
        /\ tret.exc = "none"
        /\ LET r == tret.val[1]
               cutoff100 == Len(Filtered) * tcall.threshold
           IN  IF Filtered = <<>>
               THEN r = "root" /\ tret.val[2].one
               ELSE /\ Support(r) * 100 > cutoff100
                    /\ IF TopCount * 100 > cutoff100
                       THEN r \in Range(Filtered) /\ CountOf(Filtered, r) = TopCount
                       ELSE \A x \in FilteredIds :
                                DepthOf(tbefore, x) > DepthOf(tbefore, r) =>
                                    Support(x) * 100 <= cutoff100

\* no listed taxon was frequent enough by itself, and lca_star has returned
\* an id other than the root id that enough of the calls lie under
C11_Witness ==
    /\ Called("lca_star") /\ WellFormed(tbefore) /\ AllInTree
    /\ tret.exc = "none"
    /\ Filtered # <<>>
    /\ TopCount * 100 <= Len(Filtered) * tcall.threshold
    /\ tret.val[1] \notin {"1", "root"}

====
